---- MODULE Spec2Model ----
(***************************************************************************)
(* randstr (crypto_random.c): a command-line generator of random strings   *)
(* over one of three fixed character sets, fed by the operating system's   *)
(* CSPRNG, with a Shannon entropy report.                                  *)
(*                                                                         *)
(* C strings are sequences of one-character strings closed by NUL; C's     *)
(* zero-based s[k] is At(s, k).  A pointer is the name of the heap block   *)
(* it points to, or "NULL"; heap gives each block's allocation status and  *)
(* mem its contents.                                                       *)
(***************************************************************************)
EXTENDS Integers, Sequences, FiniteSets, TLC

(* ------------------------------ bounds -------------------------------- *)
\* longest string the model generates (main admits up to MAX_LENGTH)
MaxLen == 2
\* longest length argument enumerated character by character
MaxArgLen == 2
\* largest argc
MaxArgc == 3
\* longest input of the entropy calculation checked on its own
MaxStrLen == 3

(* --------------------------- C strings -------------------------------- *)
NUL == "NUL"
Uninit == "uninit"

Lit(s) == s \o <<NUL>>

At(s, k) == s[k + 1]

strlen(s) == (CHOOSE i \in 1..Len(s) : s[i] = NUL /\ \A j \in 1..(i - 1) : s[j] # NUL) - 1

CStr(s) == SubSeq(s, 1, strlen(s))

strcmp0(a, b) == CStr(a) = CStr(b)

SeqsUpTo(S, n) == UNION {[1..k -> S] : k \in 0..n}

(* --------------------------- character sets --------------------------- *)
Upper == <<"A","B","C","D","E","F","G","H","I","J","K","L","M",
           "N","O","P","Q","R","S","T","U","V","W","X","Y","Z">>
Lower == <<"a","b","c","d","e","f","g","h","i","j","k","l","m",
           "n","o","p","q","r","s","t","u","v","w","x","y","z">>
Digits == <<"0","1","2","3","4","5","6","7","8","9">>
Punct == <<"!","@","#","$","%","^","&","*","(",")","-","_","=","+",
           "[","]","{","}","|",";",":",",",".","<",">","?">>

\* faulty variant: two more punctuation characters
CHARSET_FULL_Extended == Lit(Upper \o Lower \o Digits \o Punct \o <<"/", "~">>)

CHARSET_FULL == Lit(Upper \o Lower \o Digits \o Punct)
CHARSET_ALNUM == Lit(Upper \o Lower \o Digits)
CHARSET_NUM == Lit(Digits)

(* ------------------------------ strtol -------------------------------- *)
\* long is taken as 32 bits wide (Windows, ILP32).  Where long has 64 bits
\* strtol clamps later, but every value the two differ on is above MAX_LENGTH.
LONG_MAX == 2147483647
LONG_MIN == (-LONG_MAX) - 1

isspace(c) == c \in {" ", "\t", "\n", "\r", "\f"}

isdigit(c) == \E d \in 1..10 : Digits[d] = c

DigitVal(c) == (CHOOSE d \in 1..10 : Digits[d] = c) - 1

RECURSIVE SkipSpace(_, _)
SkipSpace(s, i) == IF isspace(At(s, i)) THEN SkipSpace(s, i + 1) ELSE i

\* the digits from index i on: [acc: magnitude, clamped; ovf: out of long's
\* range; end: index of the first character that is no digit]
RECURSIVE ScanDigits(_, _, _, _)
ScanDigits(s, i, acc, ovf) ==
    IF isdigit(At(s, i))
    THEN LET d == DigitVal(At(s, i))
         IN  IF ovf \/ acc > (LONG_MAX - d) \div 10
             THEN ScanDigits(s, i + 1, LONG_MAX, TRUE)
             ELSE ScanDigits(s, i + 1, acc * 10 + d, FALSE)
    ELSE [acc |-> acc, ovf |-> ovf, end |-> i]

\* strtol(nptr, &endptr, 10): [val |-> the long, endptr |-> index into nptr]
strtol(nptr) ==
    LET i0 == SkipSpace(nptr, 0)
        neg == At(nptr, i0) = "-"
        i1 == IF At(nptr, i0) \in {"+", "-"} THEN i0 + 1 ELSE i0
        d == ScanDigits(nptr, i1, 0, FALSE)
    IN  IF d.end = i1
        THEN [val |-> 0, endptr |-> 0]
        ELSE [val |-> IF neg THEN (IF d.ovf THEN LONG_MIN ELSE -d.acc)
                      ELSE d.acc,
              endptr |-> d.end]

MAX_LENGTH == 1000000

\* faulty variant: the upper limit is not tested
InvalidLength_NoMax(endch, length) == endch # NUL \/ length <= 0

\* the test of main's line 168
InvalidLength(endch, length) == endch # NUL \/ length <= 0 \/ length > MAX_LENGTH

(* ------------------------- Shannon entropy ---------------------------- *)
\* the byte values the second loop of calculate_shannon_entropy ranges over
ByteChars == {Upper[i] : i \in 1..26} \cup {Lower[i] : i \in 1..26}
             \cup {Digits[i] : i \in 1..10} \cup {Punct[i] : i \in 1..26}
             \cup {" "}

CountOf(str, c) == Cardinality({i \in 1..strlen(str) : str[i] = c})

\* faulty variant: every byte value contributes a term
Contributes_All(freq, c) == freq[c] >= 0

\* line 140: the values that contribute a term
Contributes(freq, c) == freq[c] > 0

\* The double is kept exact: 0.0 minus one term -(p * log2(p)) per entry of
\* terms, p = num/den; divs holds every divisor of a division executed.
calculate_shannon_entropy(str) ==
    LET len == strlen(str)
        freq == [c \in ByteChars |-> CountOf(str, c)]
        used == {c \in ByteChars : Contributes(freq, c)}
    IN  [terms |-> {[c |-> c, num |-> freq[c], den |-> len] : c \in used},
         divs |-> {len : c \in used}]

\* the value is 0.0: every term has p = 1, so log(p) = 0 (or there is none)
IsZeroEntropy(e) == \A t \in e.terms : t.den # 0 /\ t.num = t.den

NoEntropy == [terms |-> {}, divs |-> {}]

(* ------------------------------ inputs -------------------------------- *)
Platforms == {"linux", "unix", "win32"}

\* the byte values the random sources deliver in the model
ByteSamples == {87, 88, 255}

ArgChars == {"-", "0", "1", "2", "3", "x"}

\* further length arguments: white space, signs, the limits of the range and of long
LongArgs == {<<"+","1">>, <<" ","2">>, <<"2"," ">>, <<" ">>, <<" ","+","2">>, <<"+"," ","2">>,
             <<"\t","1">>, <<"1","0","0","0","0","0","0">>,
             <<"1","0","0","0","0","0","1">>, <<"0","0","0","0","0","0","0","2">>,
             <<"2","1","4","7","4","8","3","6","4","8">>,
             <<"9","9","9","9","9","9","9","9","9","9","9","9">>,
             <<"-","9","9","9","9","9","9","9","9","9","9","9">>}

LengthArgs == {Lit(s) : s \in SeqsUpTo(ArgChars, MaxArgLen) \cup LongArgs}

ModeArgs == {Lit(<<"f","u","l","l">>), Lit(<<"a","l","n","u","m">>),
             Lit(<<"n","u","m">>), Lit(<<>>), Lit(<<"F","U","L","L">>),
             Lit(<<"n","u","m","s">>), Lit(<<"a","l","n","u">>)}

ProgName == Lit(<<"r">>)

\* the argument vectors of n entries: the program's name, a length, a mode,
\* and arguments main never reads
Argvs(n) == {[k \in 0..(n - 1) |->
                 IF k = 1 THEN a1 ELSE IF k = 2 THEN a2 ELSE ProgName] :
               a1 \in LengthArgs, a2 \in ModeArgs}

\* character sets generate_random_string is called with directly
CustomCharset == Lit(<<"x","y","z">>)
Charsets == {CHARSET_FULL, CHARSET_ALNUM, CHARSET_NUM, CustomCharset}

EntropyChars == {"a", "b", "0", "?"}

(* ------------------------------- state -------------------------------- *)
VARIABLES
    platform,       \* the build: which branch of the #ifdefs is compiled
    argc, argv,     \* main's arguments
    pc,             \* the statement control is at
    length,         \* main: the parsed length
    charset,        \* main: the selected character set
    mode_name,      \* main: its display name
    gen_length,     \* generate_random_string / get_random_bytes: length
    gen_charset,    \* generate_random_string: charset
    result,         \* generate_random_string: pointer to the output buffer
    random_bytes,   \* generate_random_string: pointer to the byte buffer
    heap,           \* block -> "unalloc" | "live" | "freed"
    mem,            \* block -> contents
    fd,             \* get_random_bytes: "none" | "open" | "closed"
    bytes_read,     \* get_random_bytes: bytes accumulated by the read loop
    last_read,      \* the latest read(): its request, result and errno
    grb_rv,         \* get_random_bytes: its return value
    random_string,  \* what generate_random_string returned
    entropy,        \* what calculate_shannon_entropy returned
    ent_str,        \* the argument calculate_shannon_entropy was given
    stdout, stderr, \* what was written to each stream
    exit_status,    \* main's return value once pc = "exit"
    events          \* calls made and outcomes met so far

vars == <<platform, argc, argv, pc, length, charset, mode_name, gen_length,
          gen_charset, result, random_bytes, heap, mem, fd, bytes_read,
          last_read, grb_rv, random_string, entropy, ent_str, stdout, stderr,
          exit_status, events>>

mainVars == <<length, charset, mode_name>>
bufVars == <<result, random_bytes, heap, mem>>
grbVars == <<fd, bytes_read, last_read, grb_rv>>
entVars == <<entropy, ent_str>>
ioVars == <<stdout, stderr, exit_status>>
inputVars == <<platform, argc, argv>>
genArgs == <<gen_length, gen_charset>>

NoRead == [off |-> 0, cnt |-> 0, result |-> 0, errno |-> "none"]

UninitByte == [val |-> -1, src |-> Uninit]

InitCommon ==
    /\ platform \in Platforms
    /\ length = 0
    /\ charset = CHARSET_FULL
    /\ mode_name = "full"
    /\ result = "NULL"
    /\ random_bytes = "NULL"
    /\ heap = [b \in {"result", "random_bytes"} |-> "unalloc"]
    /\ mem = [b \in {"result", "random_bytes"} |-> <<>>]
    /\ fd = "none"
    /\ bytes_read = 0
    /\ last_read = NoRead
    /\ grb_rv = 0
    /\ random_string = "NULL"
    /\ entropy = NoEntropy
    /\ stdout = <<>>
    /\ stderr = <<>>
    /\ exit_status = 0
    /\ events = {}

\* the process as the operating system starts it
Init ==
    /\ InitCommon
    /\ argc \in 1..MaxArgc
    /\ argv \in Argvs(argc)
    /\ pc = "main"
    /\ gen_length = 0
    /\ gen_charset = CHARSET_FULL
    /\ ent_str = Lit(<<>>)

(* -------------------------------- main -------------------------------- *)
UsageText == <<"Usage: %s <length> [mode]\n",
               "  length: Length of the random string to generate\n",
               "  mode (optional):\n",
               "    full   - All printable ASCII including special chars (default)\n",
               "    alnum  - Alphanumeric only (A-Z, a-z, 0-9)\n",
               "    num    - Numbers only (0-9)\n",
               "\nExample: %s 32 full\n">>

\* print_usage writes with printf, that is to stdout
print_usage(out) == out \o UsageText

MainUsage ==
    /\ pc = "main"
    /\ argc < 2
    /\ stdout' = print_usage(stdout)
    /\ events' = events \cup {"print_usage"}
    /\ exit_status' = 1
    /\ pc' = "exit"
    /\ UNCHANGED <<inputVars, mainVars, genArgs, bufVars, grbVars, random_string,
                   entVars, stderr>>

MainBadLength ==
    /\ pc = "main"
    /\ argc >= 2
    /\ LET r == strtol(argv[1])
       IN  InvalidLength(At(argv[1], r.endptr), r.val)
    /\ stderr' = Append(stderr, "Error: Invalid length. Must be a positive integer (max 1000000)\n")
    /\ exit_status' = 1
    /\ pc' = "exit"
    /\ UNCHANGED <<inputVars, mainVars, genArgs, bufVars, grbVars, random_string,
                   entVars, stdout, events>>

MainLengthOk ==
    /\ pc = "main"
    /\ argc >= 2
    /\ LET r == strtol(argv[1])
       IN  /\ ~InvalidLength(At(argv[1], r.endptr), r.val)
           /\ length' = r.val
    /\ pc' = "main_mode"
    /\ UNCHANGED <<inputVars, charset, mode_name, genArgs, bufVars, grbVars,
                   random_string, entVars, ioVars, events>>

\* lines 174-188: [ok, charset, mode_name]
SelectMode(n, args) ==
    IF n >= 3
    THEN IF strcmp0(args[2], Lit(<<"a","l","n","u","m">>))
         THEN [ok |-> TRUE, charset |-> CHARSET_ALNUM, mode_name |-> "alphanumeric"]
         ELSE IF strcmp0(args[2], Lit(<<"n","u","m">>))
         THEN [ok |-> TRUE, charset |-> CHARSET_NUM, mode_name |-> "numeric"]
         ELSE IF ~strcmp0(args[2], Lit(<<"f","u","l","l">>))
         THEN [ok |-> FALSE, charset |-> CHARSET_FULL, mode_name |-> "full"]
         ELSE [ok |-> TRUE, charset |-> CHARSET_FULL, mode_name |-> "full"]
    ELSE [ok |-> TRUE, charset |-> CHARSET_FULL, mode_name |-> "full"]

MainBadMode ==
    /\ pc = "main_mode"
    /\ ~SelectMode(argc, argv).ok
    /\ stderr' = Append(stderr, "Error: Invalid mode. Use 'full', 'alnum', or 'num'\n")
    /\ exit_status' = 1
    /\ pc' = "exit"
    /\ UNCHANGED <<inputVars, mainVars, genArgs, bufVars, grbVars, random_string,
                   entVars, stdout, events>>

MainModeOk ==
    /\ pc = "main_mode"
    /\ LET m == SelectMode(argc, argv)
       IN  /\ m.ok
           /\ charset' = m.charset
           /\ mode_name' = m.mode_name
    /\ pc' = "main_generate"
    /\ UNCHANGED <<inputVars, length, genArgs, bufVars, grbVars, random_string,
                   entVars, ioVars, events>>

\* line 191: the call.  The model follows it for lengths up to MaxLen.
MainCallGenerate ==
    /\ pc = "main_generate"
    /\ length <= MaxLen
    /\ gen_length' = length
    /\ gen_charset' = charset
    /\ pc' = "gen_entry"
    /\ UNCHANGED <<inputVars, mainVars, bufVars, grbVars, random_string, entVars,
                   ioVars, events>>

(* ----------------------- generate_random_string ----------------------- *)
free(h, p) == [h EXCEPT ![p] = "freed"]

\* malloc(length + 1) returned NULL
GenMallocResultFail ==
    /\ pc = "gen_entry"
    /\ stderr' = Append(stderr, "Memory allocation failed\n")
    /\ random_string' = "NULL"
    /\ events' = events \cup {"generate_random_string", "malloc_failed"}
    /\ pc' = "gen_returned"
    /\ UNCHANGED <<inputVars, mainVars, genArgs, bufVars, grbVars, entVars, stdout,
                   exit_status>>

GenMallocResultOk ==
    /\ pc = "gen_entry"
    /\ result' = "result"
    /\ heap' = [heap EXCEPT !["result"] = "live"]
    /\ mem' = [mem EXCEPT !["result"] = [i \in 1..(gen_length + 1) |-> Uninit]]
    /\ events' = events \cup {"generate_random_string"}
    /\ pc' = "gen_malloc_bytes"
    /\ UNCHANGED <<inputVars, mainVars, genArgs, random_bytes, grbVars, random_string,
                   entVars, ioVars>>

\* malloc(length) returned NULL: no memory, or, for a size of 0, the
\* implementation-defined choice of the C library
GenMallocBytesFail ==
    /\ pc = "gen_malloc_bytes"
    /\ stderr' = Append(stderr, "Memory allocation failed\n")
    /\ heap' = free(heap, result)
    /\ random_string' = "NULL"
    /\ events' = events \cup {IF gen_length = 0 THEN "malloc0_null" ELSE "malloc_failed"}
    /\ pc' = "gen_returned"
    /\ UNCHANGED <<inputVars, mainVars, genArgs, result, random_bytes, mem, grbVars,
                   entVars, stdout, exit_status>>

GenMallocBytesOk ==
    /\ pc = "gen_malloc_bytes"
    /\ random_bytes' = "random_bytes"
    /\ heap' = [heap EXCEPT !["random_bytes"] = "live"]
    /\ mem' = [mem EXCEPT !["random_bytes"] = [i \in 1..gen_length |-> UninitByte]]
    /\ events' = events \cup {"get_random_bytes"}
    /\ pc' = "grb_entry"
    /\ UNCHANGED <<inputVars, mainVars, genArgs, result, grbVars, random_string,
                   entVars, ioVars>>

(* -------------------------- get_random_bytes -------------------------- *)
\* buf with the bytes bs written from zero-based offset off on, by src
WriteBytes(buf, off, bs, src) ==
    [i \in 1..Len(buf) |->
        IF i > off /\ i <= off + Len(bs)
        THEN [val |-> bs[i - off], src |-> src]
        ELSE buf[i]]

\* faulty variant: the descriptor is left as it is
close_Leak(f) == f

close(f) == "closed"

\* line 52-53, Windows: BCryptGenRandom fills the buffer or fails
GrbBCryptOk ==
    /\ pc = "grb_entry"
    /\ platform = "win32"
    /\ \E bs \in [1..gen_length -> ByteSamples] :
          mem' = [mem EXCEPT !["random_bytes"] = WriteBytes(@, 0, bs, "BCryptGenRandom")]
    /\ grb_rv' = 0
    /\ events' = events \cup {"BCryptGenRandom"}
    /\ pc' = "gen_check"
    /\ UNCHANGED <<inputVars, mainVars, genArgs, result, random_bytes, heap, fd,
                   bytes_read, last_read, random_string, entVars, ioVars>>

GrbBCryptFail ==
    /\ pc = "grb_entry"
    /\ platform = "win32"
    /\ grb_rv' = -1
    /\ events' = events \cup {"BCryptGenRandom", "BCryptGenRandom_failed"}
    /\ pc' = "gen_check"
    /\ UNCHANGED <<inputVars, mainVars, genArgs, bufVars, fd, bytes_read, last_read,
                   random_string, entVars, ioVars>>

\* lines 58-61, Linux: getrandom returned length
GrbGetrandomFull ==
    /\ pc = "grb_entry"
    /\ platform = "linux"
    /\ \E bs \in [1..gen_length -> ByteSamples] :
          mem' = [mem EXCEPT !["random_bytes"] = WriteBytes(@, 0, bs, "getrandom")]
    /\ grb_rv' = 0
    /\ events' = events \cup {"getrandom"}
    /\ pc' = "gen_check"
    /\ UNCHANGED <<inputVars, mainVars, genArgs, result, random_bytes, heap, fd,
                   bytes_read, last_read, random_string, entVars, ioVars>>

\* getrandom returned -1, or fewer bytes than asked for
GrbGetrandomShort ==
    /\ pc = "grb_entry"
    /\ platform = "linux"
    /\ \E r \in (-1)..(gen_length - 1) :
          /\ r # gen_length
          /\ \E bs \in [1..(IF r < 0 THEN 0 ELSE r) -> ByteSamples] :
                mem' = [mem EXCEPT !["random_bytes"] = WriteBytes(@, 0, bs, "getrandom")]
    /\ events' = events \cup {"getrandom", "getrandom_short"}
    /\ pc' = "grb_open"
    /\ UNCHANGED <<inputVars, mainVars, genArgs, result, random_bytes, heap, grbVars,
                   random_string, entVars, ioVars>>

\* line 65 is reached after a short getrandom, or at once where there is none
AtOpen == pc = "grb_open" \/ (pc = "grb_entry" /\ platform = "unix")

GrbOpenFail ==
    /\ AtOpen
    /\ stderr' = Append(stderr, "Failed to open /dev/urandom: <strerror>\n")
    /\ grb_rv' = -1
    /\ events' = events \cup {"open", "open_failed"}
    /\ pc' = "gen_check"
    /\ UNCHANGED <<inputVars, mainVars, genArgs, bufVars, fd, bytes_read, last_read,
                   random_string, entVars, stdout, exit_status>>

GrbOpenOk ==
    /\ AtOpen
    /\ fd' = "open"
    /\ bytes_read' = 0
    /\ events' = events \cup {"open"}
    /\ pc' = "grb_while"
    /\ UNCHANGED <<inputVars, mainVars, genArgs, bufVars, last_read, grb_rv,
                   random_string, entVars, ioVars>>

\* line 72: the loop's test
LoopContinues(n, len) == n < len

GrbLoopEnter ==
    /\ pc = "grb_while"
    /\ LoopContinues(bytes_read, gen_length)
    /\ pc' = "grb_read"
    /\ UNCHANGED <<inputVars, mainVars, genArgs, bufVars, grbVars, random_string,
                   entVars, ioVars, events>>

\* lines 83-84
GrbLoopExit ==
    /\ pc = "grb_while"
    /\ ~LoopContinues(bytes_read, gen_length)
    /\ fd' = close(fd)
    /\ grb_rv' = 0
    /\ pc' = "gen_check"
    /\ UNCHANGED <<inputVars, mainVars, genArgs, bufVars, bytes_read, last_read,
                   random_string, entVars, ioVars, events>>

\* faulty variant: every read writes at the start of the buffer
ReadOffset_Start(n) == 0

\* line 73: where the read writes, and how much it asks for
ReadOffset(n) == n

ReadCount(n, len) == len - n

\* faulty variant: the count is not advanced
AdvanceCount_Stuck(n, r) == n

\* line 80
AdvanceCount(n, r) == n + r

\* what read(fd, buf, cnt) can do: fail, or deliver 0..cnt bytes
DataOutcomes(cnt) ==
    UNION {{[result |-> k, errno |-> "none", bytes |-> bs] : bs \in [1..k -> ByteSamples]} :
             k \in 1..cnt}

ZeroOutcome == [result |-> 0, errno |-> "none", bytes |-> <<>>]

EintrOutcome == [result |-> -1, errno |-> "EINTR", bytes |-> <<>>]

ErrorOutcome == [result |-> -1, errno |-> "EIO", bytes |-> <<>>]

\* lines 73-80: one pass of the loop body, the read having gone as o says
GrbRead(o, kind) ==
    /\ pc = "grb_read"
    /\ last_read' = [off |-> ReadOffset(bytes_read),
                     cnt |-> ReadCount(bytes_read, gen_length),
                     result |-> o.result, errno |-> o.errno]
    /\ mem' = [mem EXCEPT !["random_bytes"] =
                  WriteBytes(@, ReadOffset(bytes_read), o.bytes, "urandom")]
    /\ events' = events \cup {"read", kind}
    /\ IF o.result < 0
       THEN IF o.errno = "EINTR"
            THEN /\ pc' = "grb_while"
                 /\ UNCHANGED <<fd, bytes_read, grb_rv, stderr>>
            ELSE /\ fd' = close(fd)
                 /\ stderr' = Append(stderr, "Failed to read from /dev/urandom: <strerror>\n")
                 /\ grb_rv' = -1
                 /\ pc' = "gen_check"
                 /\ UNCHANGED bytes_read
       ELSE /\ bytes_read' = AdvanceCount(bytes_read, o.result)
            /\ pc' = "grb_while"
            /\ UNCHANGED <<fd, grb_rv, stderr>>
    /\ UNCHANGED <<inputVars, mainVars, genArgs, result, random_bytes, heap,
                   random_string, entVars, stdout, exit_status>>

GrbReadData ==
    /\ pc = "grb_read"
    /\ \E o \in DataOutcomes(ReadCount(bytes_read, gen_length)) : GrbRead(o, "read_data")

GrbReadZero ==
    /\ pc = "grb_read"
    /\ GrbRead(ZeroOutcome, "read_zero")

GrbReadEintr ==
    /\ pc = "grb_read"
    /\ GrbRead(EintrOutcome, "read_eintr")

GrbReadError ==
    /\ pc = "grb_read"
    /\ GrbRead(ErrorOutcome, "read_failed")

(* ------------------ generate_random_string, continued ----------------- *)
\* faulty variant: only a positive return value counts as a failure
RandomFailed_Positive(rv) == rv > 0

\* line 108
RandomFailed(rv) == rv # 0

GenRandomFailed ==
    /\ pc = "gen_check"
    /\ RandomFailed(grb_rv)
    /\ stderr' = Append(stderr, "Failed to generate random bytes\n")
    /\ heap' = free(free(heap, random_bytes), result)
    /\ random_string' = "NULL"
    /\ pc' = "gen_returned"
    /\ UNCHANGED <<inputVars, mainVars, genArgs, result, random_bytes, mem, grbVars,
                   entVars, stdout, exit_status, events>>

\* faulty variant: the modulus counts the terminator (sizeof for strlen)
MapByte_Sizeof(b, cs) == At(cs, b % (strlen(cs) + 1))

\* line 119
MapByte(b, cs) == At(cs, b % strlen(cs))

\* lines 116-124.  A cell of random_bytes that nothing wrote holds whatever
\* malloc left there: any byte.
GenConvert ==
    /\ pc = "gen_check"
    /\ ~RandomFailed(grb_rv)
    /\ \E g \in [1..gen_length -> ByteSamples] :
          LET cell(i) == mem[random_bytes][i]
              b(i) == IF cell(i).src = Uninit THEN g[i] ELSE cell(i).val
          IN  /\ \A i \in 1..gen_length : cell(i).src # Uninit => g[i] = cell(i).val
              /\ mem' = [mem EXCEPT ![result] =
                            [i \in 1..(gen_length + 1) |->
                                IF i <= gen_length THEN MapByte(b(i), gen_charset)
                                ELSE NUL]]
    /\ heap' = free(heap, random_bytes)
    /\ random_string' = result
    /\ pc' = "gen_returned"
    /\ UNCHANGED <<inputVars, mainVars, genArgs, result, random_bytes, grbVars,
                   entVars, ioVars, events>>

(* --------------------------- main, continued -------------------------- *)
MainGenFailed ==
    /\ pc = "gen_returned"
    /\ random_string = "NULL"
    /\ exit_status' = 1
    /\ pc' = "exit"
    /\ UNCHANGED <<inputVars, mainVars, genArgs, bufVars, grbVars, random_string,
                   entVars, stdout, stderr, events>>

\* lines 197-212
MainOutput ==
    /\ pc = "gen_returned"
    /\ random_string # "NULL"
    /\ stdout' = stdout \o CStr(mem[random_string]) \o <<"\n">>
    /\ ent_str' = mem[random_string]
    /\ entropy' = calculate_shannon_entropy(mem[random_string])
    /\ stderr' = stderr \o <<"\n--- Entropy Information ---\n", "Mode: ", "String length: ",
                             "Shannon entropy: ", "Maximum possible: ", "Total entropy: ",
                             "Efficiency: ">>
    /\ events' = events \cup {"calculate_shannon_entropy"}
    /\ heap' = free(heap, random_string)
    /\ exit_status' = 0
    /\ pc' = "exit"
    /\ UNCHANGED <<inputVars, mainVars, genArgs, result, random_bytes, mem, grbVars,
                   random_string>>

(* --------------------------- specifications --------------------------- *)
GenNext ==
    \/ GenMallocResultFail
    \/ GenMallocResultOk
    \/ GenMallocBytesFail
    \/ GenMallocBytesOk
    \/ GrbBCryptOk
    \/ GrbBCryptFail
    \/ GrbGetrandomFull
    \/ GrbGetrandomShort
    \/ GrbOpenFail
    \/ GrbOpenOk
    \/ GrbLoopEnter
    \/ GrbLoopExit
    \/ GrbReadData
    \/ GrbReadZero
    \/ GrbReadEintr
    \/ GrbReadError
    \/ GenRandomFailed
    \/ GenConvert

Next ==
    \/ MainUsage
    \/ MainBadLength
    \/ MainLengthOk
    \/ MainBadMode
    \/ MainModeOk
    \/ MainCallGenerate
    \/ GenNext
    \/ MainGenFailed
    \/ MainOutput

\* the whole program, from main
Spec == Init /\ [][Next]_vars

\* generate_random_string called on its own, with any length and charset
InitGen ==
    /\ InitCommon
    /\ argc = 1
    /\ argv \in Argvs(1)
    /\ pc = "gen_entry"
    /\ gen_length \in 0..MaxLen
    /\ gen_charset \in Charsets
    /\ ent_str = Lit(<<>>)

SpecGen == InitGen /\ [][GenNext]_vars

\* the program keeps running, and a read on the device eventually delivers
\* at least one byte or fails for good
SpecGenFair ==
    /\ SpecGen
    /\ WF_vars(GenNext)
    /\ SF_vars(GrbReadData \/ GrbReadError)

\* calculate_shannon_entropy called on its own
InitEntropy ==
    /\ InitCommon
    /\ argc = 1
    /\ argv \in Argvs(1)
    /\ pc = "entropy_entry"
    /\ gen_length = 0
    /\ gen_charset = CHARSET_FULL
    /\ ent_str \in {Lit(s) : s \in SeqsUpTo(EntropyChars, MaxStrLen)}

EntropyCall ==
    /\ pc = "entropy_entry"
    /\ entropy' = calculate_shannon_entropy(ent_str)
    /\ events' = events \cup {"calculate_shannon_entropy"}
    /\ pc' = "entropy_returned"
    /\ UNCHANGED <<inputVars, mainVars, genArgs, bufVars, grbVars, random_string,
                   ent_str, ioVars>>

SpecEntropy == InitEntropy /\ [][EntropyCall]_vars

(* ======================================================================= *)
(* Properties                                                              *)
(* ======================================================================= *)
Returned == pc = "gen_returned"

Succeeded == Returned /\ random_string # "NULL"

OsSources == {"getrandom", "urandom", "BCryptGenRandom"}

\* C1: a successful generate_random_string(length, C) returns a string of
\* exactly length characters whose i-th character is C[b[i] mod |C|], b the
\* bytes get_random_bytes delivered; so every character is a member of C.
C1_GenerateMapsBytes ==
    Succeeded =>
        LET s == mem[random_string]
            b == mem[random_bytes]
            C == CStr(gen_charset)
        IN  /\ Len(CStr(s)) = gen_length
            /\ \A i \in 1..gen_length :
                  /\ b[i].src \in OsSources
                  /\ s[i] = C[(b[i].val % Len(C)) + 1]
                  /\ \E j \in 1..Len(C) : s[i] = C[j]

C1_Witness ==
    /\ Succeeded
    /\ gen_length >= 2
    /\ gen_charset = CHARSET_FULL
    /\ mem[random_bytes][1].val = 255
    /\ mem[random_bytes][2].val = 88
    /\ CStr(mem[random_string]) = <<CHARSET_FULL[80], "A">> \o SubSeq(mem[random_string], 3, gen_length)

\* C2: at exit, either the complete string of the requested length (and its
\* newline) is all that stdout holds, or stdout holds nothing and the exit
\* status is not zero.
C2_NoPartialSuccess ==
    pc = "exit" =>
        \/ stdout = <<>> /\ exit_status # 0
        \/ /\ random_string # "NULL"
           /\ stdout = CStr(mem[random_string]) \o <<"\n">>
           /\ Len(stdout) = length + 1
           /\ exit_status = 0

\* C3: once the fallback device could not be opened or a read on it failed
\* with an error other than EINTR (the primary interface not having supplied
\* the full count), get_random_bytes returns -1, generate_random_string
\* returns NULL and main exits with 1 having written nothing to stdout; and
\* whatever reaches stdout was mapped from bytes the OS sources delivered.
C3_NoDegradedSource ==
    /\ (events \cap {"open_failed", "read_failed"} # {}) =>
          /\ platform # "win32"
          /\ platform = "linux" => "getrandom_short" \in events
          /\ pc \in {"gen_check", "gen_returned", "exit"}
          /\ grb_rv = -1
          /\ pc \in {"gen_returned", "exit"} => random_string = "NULL"
          /\ pc = "exit" => exit_status = 1
          /\ stdout = <<>>
    /\ (pc = "exit" /\ exit_status = 0) =>
          /\ \A i \in 1..gen_length : mem[random_bytes][i].src \in OsSources
          /\ stdout = [i \in 1..(gen_length + 1) |->
                          IF i <= gen_length
                          THEN CStr(charset)[(mem[random_bytes][i].val % Len(CStr(charset))) + 1]
                          ELSE "\n"]

C3_Witness ==
    /\ pc = "exit"
    /\ exit_status = 1
    /\ platform = "linux"
    /\ {"getrandom_short", "read_data", "read_failed"} \subseteq events

\* what a length argument denotes, read without strtol: optional leading
\* white space, an optional sign, then decimal digits and nothing else
DecDigits == {"0", "1", "2", "3", "4", "5", "6", "7", "8", "9"}

RECURSIVE TrimLeft(_)
TrimLeft(t) == IF t # <<>> /\ t[1] \in {" ", "\t", "\n", "\r", "\f"} THEN TrimLeft(Tail(t)) ELSE t

RECURSIVE DropZeros(_)
DropZeros(u) == IF u # <<>> /\ u[1] = "0" THEN DropZeros(Tail(u)) ELSE u

RECURSIVE DecVal(_)
DecVal(u) ==
    IF u = <<>> THEN 0
    ELSE DecVal(SubSeq(u, 1, Len(u) - 1)) * 10
         + (CHOOSE d \in 0..9 : Digits[d + 1] = u[Len(u)])

DenotesLength(arg) ==
    LET t == TrimLeft(CStr(arg))
        signed == t # <<>> /\ t[1] \in {"+", "-"}
        u == IF signed THEN Tail(t) ELSE t
        g == DropZeros(u)
    IN  /\ u # <<>>
        /\ \A i \in 1..Len(u) : u[i] \in DecDigits
        /\ ~(signed /\ t[1] = "-")
        /\ Len(g) <= 7
        /\ DecVal(g) >= 1
        /\ DecVal(g) <= 1000000

ModeAccepted ==
    argc >= 3 => CStr(argv[2]) \in {<<"f","u","l","l">>, <<"a","l","n","u","m">>, <<"n","u","m">>}

\* C4: when the length argument is no base-10 integer in 1..1000000, or the
\* mode argument is present and is none of full, alnum, num, main exits with
\* 1 before the core is invoked: no call of generate_random_string, no
\* request to the OS, no allocation, nothing on stdout.
C4_RejectedBeforeCore ==
    (argc >= 2 /\ ~(DenotesLength(argv[1]) /\ ModeAccepted)) =>
        /\ pc \in {"main", "main_mode", "exit"}
        /\ pc = "main_mode" => DenotesLength(argv[1])
        /\ pc = "exit" => exit_status = 1
        /\ events = {}
        /\ stdout = <<>>
        /\ \A blk \in DOMAIN heap : heap[blk] = "unalloc"

C4_Witness ==
    /\ pc = "exit"
    /\ exit_status = 1
    /\ argc >= 3
    /\ CStr(argv[1]) = <<"1","0","0","0","0","0","1">>
    /\ CStr(argv[2]) = <<"n","u","m">>

NoDuplicates(cs) == Cardinality({cs[i] : i \in 1..Len(cs)}) = Len(cs)

SizeByMode(m) == IF m = "full" THEN 88 ELSE IF m = "alphanumeric" THEN 62 ELSE 10

ClaimedSize(m) == IF m = "full" THEN 90 ELSE IF m = "alphanumeric" THEN 62 ELSE 10

C6_ZeroLengthSucceeds ==
    (Returned /\ gen_length = 0 /\ "malloc_failed" \notin events) =>
        /\ random_string # "NULL"
        /\ CStr(mem[random_string]) = <<>>

\* C7: calculate_shannon_entropy divides only for byte values with a count
\* above 0, never by a length of 0, and for the empty string adds no term
\* and returns 0.0.
C7_EntropyOfEmpty ==
    pc = "entropy_returned" =>
        /\ 0 \notin entropy.divs
        /\ \A t \in entropy.terms : t.num > 0 /\ t.den = strlen(ent_str)
        /\ strlen(ent_str) = 0 => entropy.terms = {} /\ IsZeroEntropy(entropy)

C7_Witness ==
    /\ pc = "entropy_returned"
    /\ CStr(ent_str) = <<>>
    /\ entropy = NoEntropy

\* one pass of the read loop, as C8 describes it
C8_ReadStep ==
    pc = "grb_read" =>
        LET r == last_read'
            old == mem[random_bytes]
            new == mem'[random_bytes]
        IN  /\ r.off = bytes_read
            /\ r.cnt = gen_length - bytes_read
            /\ (r.result < 0 /\ r.errno = "EINTR") =>
                  /\ bytes_read' = bytes_read
                  /\ pc' = "grb_while"
                  /\ fd' = "open"
                  /\ grb_rv' = grb_rv
                  /\ new = old
            /\ r.result >= 0 =>
                  /\ r.result <= r.cnt
                  /\ bytes_read' = bytes_read + r.result
                  /\ pc' = "grb_while"
                  /\ \A i \in 1..gen_length :
                        IF i > bytes_read /\ i <= bytes_read + r.result
                        THEN new[i].src = "urandom"
                        ELSE new[i] = old[i]

C8_Counts ==
    /\ bytes_read <= gen_length
    /\ pc = "grb_while" /\ bytes_read < gen_length => fd = "open"
    /\ (pc = "gen_check" /\ grb_rv = 0 /\ "open" \in events) =>
          /\ bytes_read = gen_length
          /\ \A i \in 1..gen_length : mem[random_bytes][i].src = "urandom"

\* C8: on the fallback path a read failing with EINTR is repeated, changes
\* no count and is no failure; a partial read advances the count by the
\* bytes read, the next read asking for the rest at the next offset; the
\* count never exceeds length; 0 is returned only with exactly length bytes.
C8_FallbackLoop == [][C8_ReadStep]_vars /\ []C8_Counts

C8_Witness ==
    /\ pc = "gen_check"
    /\ grb_rv = 0
    /\ {"read_eintr", "read_data"} \subseteq events
    /\ last_read.off > 0
    /\ last_read.cnt < gen_length

\* C9: when generate_random_string returns, the device handle, if one was
\* opened, is closed and the byte buffer is freed; on failure the result
\* buffer is freed too and NULL is returned.
C9_NothingOutlives ==
    Returned =>
        /\ fd # "open"
        /\ ("open" \in events /\ "open_failed" \notin events) => fd = "closed"
        /\ heap["random_bytes"] # "live"
        /\ random_string = "NULL" => heap["result"] # "live"
        /\ random_string # "NULL" => heap[random_string] = "live"
        /\ (events \cap {"malloc_failed", "malloc0_null", "open_failed", "read_failed",
                         "BCryptGenRandom_failed"} # {}) => random_string = "NULL"

C9_Witness ==
    /\ Returned
    /\ random_string = "NULL"
    /\ {"read_data", "read_failed"} \subseteq events
    /\ fd = "closed"
    /\ heap["result"] = "freed"
    /\ heap["random_bytes"] = "freed"

C10_ZeroIsRetry ==
    /\ (pc = "grb_read" /\ last_read'.result = 0) =>
          /\ bytes_read' = bytes_read
          /\ pc' = "grb_while"
          /\ fd' = fd
          /\ grb_rv' = grb_rv
    /\ bytes_read' >= bytes_read

\* C10: a read of 0 bytes is handled like a retry, the count never goes
\* down, and, reads eventually delivering a byte or failing for good, every
\* call of get_random_bytes returns.
C10_Returns ==
    /\ [][C10_ZeroIsRetry]_vars
    /\ (pc = "grb_entry") ~> (pc = "gen_check")

C10_Witness ==
    /\ pc = "gen_check"
    /\ grb_rv = 0
    /\ {"read_zero", "read_eintr", "read_data"} \subseteq events

====
